---------------------------- MODULE Spec2Model ----------------------------
(***************************************************************************)
(* todo-cli: markdown checkbox lists under .todo/, one per git branch.     *)
(*                                                                         *)
(* A file is a sequence of characters.  Characters are strings; a literal  *)
(* run of the source that the parser never looks into ("completed:",       *)
(* "Todo List for", one formatted timestamp, a word of an item's text) is  *)
(* one character of the model.  "\n" is the line break.                    *)
(***************************************************************************)
EXTENDS Integers, Sequences, FiniteSets, TLC

VARIABLES
    fs,        \* the working directory: [dir |-> .todo exists, files |-> list name -> content
               \* of .todo/<name>.md, other |-> the other entries of .todo]
    now,       \* the wall clock, in ticks
    isRepo,    \* the working directory is a git repository
    hasCommits,\* HEAD has at least one commit
    branches,  \* the local branches
    head,      \* the active branch
    mem,       \* the in-memory TodoList handed to WriteTodoFile (codec runs)
    out,       \* what the last call or command did and returned
    cyc        \* history: progress of a check / uncheck / check sequence on one item

vars == <<fs, now, isRepo, hasCommits, branches, head, mem, out, cyc>>

---------------------------------------------------------------------------
(* Bounds of the model.                                                    *)

MaxItems == 2        \* add is offered while a list holds fewer items
MaxNow == 2          \* the clock stops here
TicksPerMinute == 2  \* clock resolution: ticks in one minute of the timestamp format
MaxCodecLen == 2     \* longest item sequence handed to the codec
MaxCliItems == 1     \* the add command is offered while the current list holds fewer items
MaxSegments == 3     \* most path segments of a branch name handed to GetFeatureName
MaxProgressItems == 2 \* add is offered to the progress runs while the list holds fewer items
MaxOverviewItems == 5 \* most items of a list in the overview
MaxReadLines == 2     \* most lines after the header of a file handed to a read
MaxRaceItems == 2     \* most items of the list two invocations race on
MaxHistoryItems == 2  \* most items of a list in the history runs

---------------------------------------------------------------------------
(* Values.                                                                 *)

\* A nil *time.Time.
Nil == -1

\* time.Time.Format("2006-01-02 15:04") of minute 0, 1, 2, ...
TimeTokens ==
    << "2024-01-15 10:30", "2024-01-15 10:31", "2024-01-15 10:32",
       "2024-01-15 10:33", "2024-01-15 10:34", "2024-01-15 10:35" >>

Min(S) == CHOOSE x \in S : \A y \in S : x <= y
Max(S) == CHOOSE x \in S : \A y \in S : y <= x

\* one character of the model that stands for a run of 64 KiB of text, more
\* than bufio.MaxScanTokenSize
LongRun == "<64KiB>"

\* regexp \s and the ASCII part of unicode.IsSpace
IsSpace(c) == c \in {" ", "\t", "\r", "\n"}

\* item.CompletedTime.Format("2006-01-02 15:04"): the seconds are dropped
FormatTime(t) == TimeTokens[(t \div TicksPerMinute) + 1]

\* time.Parse("2006-01-02 15:04", s): Nil on error
ParseTime(s) ==
    IF Len(s) = 1 /\ \E m \in 1..Len(TimeTokens) : TimeTokens[m] = s[1]
    THEN ((CHOOSE m \in 1..Len(TimeTokens) : TimeTokens[m] = s[1]) - 1) * TicksPerMinute
    ELSE Nil

\* a list name as it is printed: its path segments joined by "/"
RECURSIVE JoinPath(_)
JoinPath(name) ==
    IF Len(name) = 0 THEN <<>>
    ELSE IF Len(name) = 1 THEN <<name[1]>>
    ELSE <<name[1], "/">> \o JoinPath(Tail(name))

TodoItem(id, text, completed, completedTime) ==
    [ID |-> id, Text |-> text, Completed |-> completed, CompletedTime |-> completedTime]

---------------------------------------------------------------------------
(* Checkbox codec: ParseTodoFile's scanner and regular expression.         *)

\* bufio.Scanner with ScanLines: the lines between line breaks; a last line
\* without a line break counts when it is not empty.
RECURSIVE ScanLines(_)
ScanLines(s) ==
    IF s = <<>> THEN <<>>
    ELSE IF \E k \in 1..Len(s) : s[k] = "\n"
    THEN LET k == Min({j \in 1..Len(s) : s[j] = "\n"})
         IN <<SubSeq(s, 1, k - 1)>> \o ScanLines(SubSeq(s, k + 1, Len(s)))
    ELSE <<s>>

\* strings.TrimSpace
TrimSpace(l) ==
    LET keep == {i \in 1..Len(l) : ~IsSpace(l[i])}
    IN IF keep = {} THEN <<>> ELSE SubSeq(l, Min(keep), Max(keep))

\* the length of the run of \s at the start of s
LeadSpaces(s) ==
    IF \A i \in 1..Len(s) : IsSpace(s[i]) THEN Len(s)
    ELSE Min({i \in 1..Len(s) : ~IsSpace(s[i])}) - 1

\* `^- \[([ x])\] ` and at least one character for (.+?)
HasCheckbox(l) ==
    /\ Len(l) >= 7
    /\ l[1] = "-" /\ l[2] = " " /\ l[3] = "["
    /\ l[4] \in {" ", "x"}
    /\ l[5] = "]" /\ l[6] = " "

\* what follows "(completed:" in a match of `\s+(.+?)\)$`
AfterCompleted(s) == SubSeq(s, LeadSpaces(s) + 3, Len(s))

\* s is a whole match of `\s+\(completed:\s+(.+?)\)$`
IsAnnotation(s) ==
    LET i == LeadSpaces(s)
        q == AfterCompleted(s)
    IN /\ Len(s) >= 6
       /\ IsSpace(s[1])
       /\ s[Len(s)] = ")"
       /\ Len(s) >= i + 2
       /\ s[i + 1] = "(" /\ s[i + 2] = "completed:"
       /\ Len(q) >= 3
       /\ LeadSpaces(q) >= 1

\* group 3 of a whole match: `\s+` is greedy and leaves (.+?) one character
AnnotationStamp(s) ==
    LET q == AfterCompleted(s)
        j == Min({LeadSpaces(q), Len(q) - 2})
    IN SubSeq(q, j + 1, Len(q) - 1)

\* group 3 for what follows the text: nothing, or the stamp of the annotation
StampOf(rest) == IF rest = <<>> THEN <<>> ELSE AnnotationStamp(rest)

\* (.+?) is lazy: the text ends at the first place after which the rest is
\* empty or a whole annotation
TextEnd(r) ==
    Min({j \in 1..Len(r) : j = Len(r) \/ IsAnnotation(SubSeq(r, j + 1, Len(r)))})

\* the groups of a match with mark `mark`, r after the checkbox, text r[1..k]
Submatch(mark, r, k) ==
    [ok |-> TRUE, mark |-> mark, text |-> SubSeq(r, 1, k),
     stamp |-> StampOf(SubSeq(r, k + 1, Len(r)))]

\* the groups of a line that starts with a checkbox, r after the checkbox
SubmatchAfterCheckbox(mark, r) == Submatch(mark, r, TextEnd(r))

\* checkboxRegex.FindStringSubmatch(line): (.+?) is lazy, so the text is the
\* shortest prefix after which the rest is empty or a whole annotation.
FindStringSubmatch(l) ==
    IF ~HasCheckbox(l) THEN [ok |-> FALSE, mark |-> " ", text |-> <<>>, stamp |-> <<>>]
    ELSE SubmatchAfterCheckbox(l[4], SubSeq(l, 7, Len(l)))

\* a loop that counts every scanned line, item or not
RECURSIVE ParseLinesCountingAll(_, _)
ParseLinesCountingAll(lines, itemID) ==
    IF lines = <<>> THEN <<>>
    ELSE LET match == FindStringSubmatch(TrimSpace(Head(lines)))
             completed == match.mark = "x"
             completedTime == IF completed /\ match.stamp # <<>>
                              THEN ParseTime(match.stamp) ELSE Nil
         IN IF match.ok
            THEN <<TodoItem(itemID, match.text, completed, completedTime)>>
                     \o ParseLinesCountingAll(Tail(lines), itemID + 1)
            ELSE ParseLinesCountingAll(Tail(lines), itemID + 1)

\* a loop that parses the timestamp of an unchecked line too
RECURSIVE ParseLinesAnyStamp(_, _)
ParseLinesAnyStamp(lines, itemID) ==
    IF lines = <<>> THEN <<>>
    ELSE LET match == FindStringSubmatch(TrimSpace(Head(lines)))
             completed == match.mark = "x"
             completedTime == IF match.stamp # <<>>
                              THEN ParseTime(match.stamp) ELSE Nil
         IN IF match.ok
            THEN <<TodoItem(itemID, match.text, completed, completedTime)>>
                     \o ParseLinesAnyStamp(Tail(lines), itemID + 1)
            ELSE ParseLinesAnyStamp(Tail(lines), itemID)

\* a reader that takes an item for completed only when its stamp parses
MatchedItemStampRequired(itemID, match) ==
    TodoItem(itemID, match.text,
             match.mark = "x" /\ (match.stamp = <<>> \/ ParseTime(match.stamp) # Nil),
             IF match.mark = "x" /\ match.stamp # <<>> THEN ParseTime(match.stamp) ELSE Nil)

\* the item of a matching line: completed for the mark x, with the time of
\* the stamp when it is completed and has one
MatchedItem(itemID, match) ==
    TodoItem(itemID, match.text, match.mark = "x",
             IF match.mark = "x" /\ match.stamp # <<>> THEN ParseTime(match.stamp) ELSE Nil)

RECURSIVE ParseLines(_, _)
\* one turn of the loop: the line matched or not, then the lines after it
ParseLine(lines, itemID, match) ==
    IF match.ok
    THEN <<MatchedItem(itemID, match)>> \o ParseLines(Tail(lines), itemID + 1)
    ELSE ParseLines(Tail(lines), itemID)

\* the loop of ParseTodoFile over the scanned lines, itemID counting from 1
ParseLines(lines, itemID) ==
    IF lines = <<>> THEN <<>>
    ELSE ParseLine(lines, itemID, FindStringSubmatch(TrimSpace(Head(lines))))

\* scanner.Err(): a line longer than bufio.MaxScanTokenSize stops the scan
ScanFails(content) == \E j \in 1..Len(content) : content[j] = LongRun

\* a read that takes a missing file for an error
ParseTodoFileStrict(dir, branchName) ==
    IF branchName \notin DOMAIN dir.files
    THEN [err |-> "failed to open todo file", Items |-> <<>>]
    ELSE IF ScanFails(dir.files[branchName])
    THEN [err |-> "error reading todo file", Items |-> <<>>]
    ELSE [err |-> "", Items |-> ParseLines(ScanLines(dir.files[branchName]), 1)]

\* ParseTodoFile: [err, Items]; a missing file is an empty list and no error
ParseTodoFile(dir, branchName) ==
    IF branchName \notin DOMAIN dir.files THEN [err |-> "", Items |-> <<>>]
    ELSE IF ScanFails(dir.files[branchName])
    THEN [err |-> "error reading todo file", Items |-> <<>>]
    ELSE [err |-> "", Items |-> ParseLines(ScanLines(dir.files[branchName]), 1)]

\* one line of WriteTodoFile's loop
ItemLine(item) ==
    IF item.Completed
    THEN IF item.CompletedTime # Nil
         THEN <<"-", " ", "[", "x", "]", " ">> \o item.Text
                  \o <<" ", "(", "completed:", " ", FormatTime(item.CompletedTime), ")", "\n">>
         ELSE <<"-", " ", "[", "x", "]", " ">> \o item.Text \o <<"\n">>
    ELSE <<"-", " ", "[", " ", "]", " ">> \o item.Text \o <<"\n">>

RECURSIVE ItemLines(_)
ItemLines(items) ==
    IF items = <<>> THEN <<>> ELSE ItemLine(Head(items)) \o ItemLines(Tail(items))

\* fmt.Fprintf(file, "# Todo List for %s\n\n", branchName)
HeaderText(branchName) ==
    <<"#", " ", "Todo List for", " ">> \o JoinPath(branchName) \o <<"\n", "\n">>

\* a directory with file `name` created or truncated and holding `content`
PutFile(dir, name, content) ==
    [dir EXCEPT !.dir = TRUE,
                !.files = [n \in DOMAIN dir.files \cup {name} |->
                              IF n = name THEN content ELSE dir.files[n]]]

\* a write that opens the file for appending instead of truncating it
WriteTodoFileAppending(dir, branchName, items) ==
    PutFile(dir, branchName,
            (IF branchName \in DOMAIN dir.files THEN dir.files[branchName] ELSE <<>>)
                \o HeaderText(branchName) \o ItemLines(items))

\* WriteTodoFile: ensure .todo, os.Create (truncate), header, one line per item
WriteTodoFile(dir, branchName, items) ==
    PutFile(dir, branchName, HeaderText(branchName) \o ItemLines(items))


---------------------------------------------------------------------------
(* List store and item operations (pkg/todo.go).  Each takes the directory *)
(* and returns the directory it leaves behind.                             *)

\* TodoFileExists: os.Stat succeeds
TodoFileExists(dir, featureName) == featureName \in DOMAIN dir.files

\* a create that writes the header without looking for the file
CreateTodoFileAlways(dir, branchName) ==
    PutFile(dir, branchName, HeaderText(branchName))

\* CreateTodoFile: ensure .todo; an existing file is left alone
CreateTodoFile(dir, branchName) ==
    IF TodoFileExists(dir, branchName) THEN [dir EXCEPT !.dir = TRUE]
    ELSE PutFile(dir, branchName, HeaderText(branchName))

\* an add that writes every list into the file of main
AddTodoItemToMain(dir, branchName, text) ==
    IF ParseTodoFile(dir, branchName).err # ""
    THEN [err |-> "failed to parse todo file", dir |-> dir]
    ELSE [err |-> "",
          dir |-> WriteTodoFile(dir, <<"main">>,
                     Append(ParseTodoFile(dir, branchName).Items,
                            TodoItem(Len(ParseTodoFile(dir, branchName).Items) + 1,
                                     text, FALSE, Nil)))]

\* AddTodoItem: parse, append with the next ID, write: [err, dir]
AddTodoItem(dir, branchName, text) ==
    LET todoList == ParseTodoFile(dir, branchName)
        newID == Len(todoList.Items) + 1
    IN IF todoList.err # ""
       THEN [err |-> "failed to parse todo file", dir |-> dir]
       ELSE [err |-> "",
             dir |-> WriteTodoFile(dir, branchName,
                        Append(todoList.Items, TodoItem(newID, text, FALSE, Nil)))]

\* a range check without the upper bound
InvalidItemIDBelow(items, itemID) == itemID < 1

\* the range check of CheckTodoItem and UncheckTodoItem
InvalidItemID(items, itemID) == itemID < 1 \/ itemID > Len(items)

\* CheckTodoItem at clock reading `clock`: [err, dir]
CheckTodoItem(dir, branchName, itemID, clock) ==
    LET todoList == ParseTodoFile(dir, branchName)
    IN IF todoList.err # ""
       THEN [err |-> "failed to parse todo file", dir |-> dir]
       ELSE IF InvalidItemID(todoList.Items, itemID)
       THEN [err |-> "invalid item ID", dir |-> dir]
       ELSE [err |-> "",
             dir |-> WriteTodoFile(dir, branchName,
                        [todoList.Items EXCEPT ![itemID].Completed = TRUE,
                                               ![itemID].CompletedTime = clock])]

\* UncheckTodoItem: [err, dir]
UncheckTodoItem(dir, branchName, itemID) ==
    LET todoList == ParseTodoFile(dir, branchName)
    IN IF todoList.err # ""
       THEN [err |-> "failed to parse todo file", dir |-> dir]
       ELSE IF InvalidItemID(todoList.Items, itemID)
       THEN [err |-> "invalid item ID", dir |-> dir]
       ELSE [err |-> "",
             dir |-> WriteTodoFile(dir, branchName,
                        [todoList.Items EXCEPT ![itemID].Completed = FALSE,
                                               ![itemID].CompletedTime = Nil])]

\* a removal that leaves the file
RemoveFileSkipped(dir, name) == dir

\* os.Remove of a list file; a missing file is no error to the caller
RemoveFile(dir, name) ==
    [dir EXCEPT !.files = [n \in DOMAIN dir.files \ {name} |-> dir.files[n]]]

---------------------------------------------------------------------------
(* Branches (pkg/git.go) and command-line input (main.go).  A branch name  *)
(* is the sequence of its path segments: feature/a is <<"feature", "a">>.  *)

\* a branch named like the list, without the prefix
FeatureBranchBare(listName) == listName

\* "feature/" + listName
FeatureBranch(listName) == <<"feature">> \o listName

\* a name resolution that keeps the last path segment only
GetFeatureNameBase(branchName) ==
    IF Len(branchName) > 1 /\ branchName[1] = "feature"
    THEN <<branchName[Len(branchName)]>> ELSE branchName

\* GetFeatureName: the branch name without a leading "feature/"
GetFeatureName(branchName) ==
    IF Len(branchName) > 1 /\ branchName[1] = "feature"
    THEN Tail(branchName) ELSE branchName

\* a lookup that finds no branch
BranchExistsNever(all, branchName) == FALSE

\* BranchExists: the reference refs/heads/<branchName> resolves
BranchExists(all, branchName) == branchName \in all

DigitChars == <<"0", "1", "2", "3", "4", "5", "6", "7", "8", "9">>

IsDigit(c) == \E d \in 1..Len(DigitChars) : DigitChars[d] = c

DigitValue(c) == (CHOOSE d \in 1..Len(DigitChars) : DigitChars[d] = c) - 1

RECURSIVE DecimalValue(_)
DecimalValue(s) ==
    IF s = <<>> THEN 0
    ELSE DecimalValue(SubSeq(s, 1, Len(s) - 1)) * 10 + DigitValue(s[Len(s)])

\* strconv.Atoi: an optional sign and decimal digits, else an error.  The
\* arguments of the model have at most two digits, far from the int range.
Atoi(s) ==
    LET signed == s # <<>> /\ s[1] \in {"+", "-"}
        body == IF signed THEN Tail(s) ELSE s
    IN IF body = <<>> \/ \E i \in 1..Len(body) : ~IsDigit(body[i])
       THEN [err |-> TRUE, n |-> 0]
       ELSE [err |-> FALSE,
             n |-> IF signed /\ s[1] = "-" THEN 0 - DecimalValue(body)
                   ELSE DecimalValue(body)]

\* strings.ToLower on the letters the answers are made of
ToLower(s) ==
    [i \in 1..Len(s) |->
        IF s[i] = "Y" THEN "y" ELSE IF s[i] = "E" THEN "e"
        ELSE IF s[i] = "S" THEN "s" ELSE IF s[i] = "N" THEN "n" ELSE s[i]]

\* a prompt that takes everything but n for a yes
ConfirmationUnlessNo(input) ==
    IF \A i \in 1..Len(input) : input[i] # "\n" THEN "error"
    ELSE LET k == Min({i \in 1..Len(input) : input[i] = "\n"})
             response == TrimSpace(ToLower(SubSeq(input, 1, k)))
         IN IF response = <<"n">> THEN "no" ELSE "yes"

\* reader.ReadString('\n') then TrimSpace(ToLower(response)) against "y" and
\* "yes": "error" when the input ends before a line break
Confirmation(input) ==
    IF \A i \in 1..Len(input) : input[i] # "\n" THEN "error"
    ELSE LET k == Min({i \in 1..Len(input) : input[i] = "\n"})
             response == TrimSpace(ToLower(SubSeq(input, 1, k)))
         IN IF response = <<"y">> \/ response = <<"y", "e", "s">> THEN "yes" ELSE "no"

---------------------------------------------------------------------------
(* Displays (pkg/todo.go): a list, the overview of all lists, the history. *)
(* An entry of .todo is [name, kind]: the name is the stem's segments and  *)
(* the extension, the kind is "file", "dir" or "symlink".                  *)

\* the entries of .todo: the list files and the other entries
DirEntries(dir) ==
    {[name |-> n \o <<".md">>, kind |-> "file"] : n \in {m \in DOMAIN dir.files : Len(m) = 1}}
        \cup dir.other

\* the file names of the model in the order os.ReadDir sorts them
FileNameOrder ==
    << <<"a", ".md">>, <<"link", ".md">>, <<"main", ".md">>,
       <<"notes", ".txt">>, <<"old", ".md">> >>

\* os.ReadDir(".todo"): the entries sorted by file name
ReadDir(dir) ==
    LET entries == DirEntries(dir)
        names == SelectSeq(FileNameOrder, LAMBDA n : \E e \in entries : e.name = n)
    IN [i \in 1..Len(names) |-> CHOOSE e \in entries : e.name = names[i]]

\* strings.HasSuffix(file.Name(), ".md")
HasSuffixMd(name) == Len(name) >= 1 /\ name[Len(name)] = ".md"

\* strings.TrimSuffix(file.Name(), ".md")
TrimSuffixMd(name) == IF HasSuffixMd(name) THEN SubSeq(name, 1, Len(name) - 1) ELSE name

\* an enumeration that takes every entry that is not a directory
FeaturesAnyExtension(dir) ==
    LET kept == SelectSeq(ReadDir(dir), LAMBDA e : e.kind # "dir")
    IN [i \in 1..Len(kept) |-> TrimSuffixMd(kept[i].name)]

\* the loop of ListAllFeatures and ShowHistory over the entries: the stems of
\* the entries that are no directory and end in ".md"
Features(dir) ==
    LET kept == SelectSeq(ReadDir(dir), LAMBDA e : e.kind # "dir" /\ HasSuffixMd(e.name))
    IN [i \in 1..Len(kept) |-> TrimSuffixMd(kept[i].name)]

\* the number of completed items
CountCompleted(items) == Cardinality({i \in 1..Len(items) : items[i].Completed})

\* percentage := (completed * 100) / total, on ints
Percentage(completed, total) == (completed * 100) \div total

\* DisplayTodoList: [err, shown]
DisplayTodoList(dir, branchName) ==
    LET todoList == ParseTodoFile(dir, branchName)
        items == todoList.Items
    IN IF todoList.err # "" THEN [err |-> "failed to parse todo file", shown |-> <<>>]
       ELSE IF Len(items) = 0
       THEN [err |-> "", shown |-> <<[kind |-> "No todos for branch", name |-> branchName]>>]
       ELSE [err |-> "",
             shown |-> <<[kind |-> "Todo list for branch", name |-> branchName]>>
                 \o [i \in 1..Len(items) |->
                        [kind |-> "item", id |-> items[i].ID,
                         status |-> IF items[i].Completed THEN "[x]" ELSE "[ ]",
                         text |-> items[i].Text]]
                 \o <<[kind |-> "Progress", completed |-> CountCompleted(items),
                       total |-> Len(items)]>>]

\* one line of the overview for list `feature`
FeatureLine(dir, feature) ==
    LET todoList == ParseTodoFile(dir, feature)
        completed == CountCompleted(todoList.Items)
        total == Len(todoList.Items)
    IN IF todoList.err # "" THEN [kind |-> "Error reading file", name |-> feature]
       ELSE IF total = 0 THEN [kind |-> "No todos", name |-> feature]
       ELSE [kind |-> "completed", name |-> feature, completed |-> completed,
             total |-> total, percentage |-> Percentage(completed, total)]

\* ListAllFeatures: ensures .todo, then one line per list: [dir, shown]
ListAllFeatures(dir) ==
    LET made == [dir EXCEPT !.dir = TRUE]
        features == Features(made)
    IN [dir |-> made,
        shown |-> IF Len(features) = 0 THEN <<[kind |-> "No features found"]>>
                  ELSE <<[kind |-> "Lists:"]>>
                           \o [i \in 1..Len(features) |-> FeatureLine(made, features[i])]]

\* the completed items with a timestamp of the lists `features`, in file order
RECURSIVE CompletedItems(_, _)
CompletedItems(dir, features) ==
    IF features = <<>> THEN <<>>
    ELSE LET listName == Head(features)
             items == ParseTodoFile(dir, listName).Items   \* empty when the read fails
             done == SelectSeq(items, LAMBDA item : item.Completed /\ item.CompletedTime # Nil)
         IN [i \in 1..Len(done) |->
                [Text |-> done[i].Text, List |-> listName, Completed |-> done[i].CompletedTime]]
                \o CompletedItems(dir, Tail(features))

\* a history that keeps the items in file order
SortInnerSkipped(a, i, j) == a

\* the inner loop of the sort of ShowHistory: position i against j, j+1, ...
RECURSIVE SortInner(_, _, _)
SortInner(a, i, j) ==
    IF j > Len(a) THEN a
    ELSE IF a[i].Completed < a[j].Completed
    THEN SortInner([a EXCEPT ![i] = a[j], ![j] = a[i]], i, j + 1)
    ELSE SortInner(a, i, j + 1)

\* the outer loop: newest first
RECURSIVE SortOuter(_, _)
SortOuter(a, i) ==
    IF i > Len(a) THEN a ELSE SortOuter(SortInner(a, i, i + 1), i + 1)

\* ShowHistory: ensures .todo, then the date and one line per completed item,
\* newest first; every time of the model is on one date: [dir, shown]
ShowHistory(dir) ==
    LET made == [dir EXCEPT !.dir = TRUE]
        sorted == SortOuter(CompletedItems(made, Features(made)), 1)
    IN [dir |-> made,
        shown |-> IF Len(sorted) = 0 THEN <<[kind |-> "No completed todos found."]>>
                  ELSE <<[kind |-> "date"]>>
                           \o [i \in 1..Len(sorted) |->
                                  [kind |-> "done", text |-> sorted[i].Text,
                                   name |-> sorted[i].List,
                                   at |-> FormatTime(sorted[i].Completed)]]]

---------------------------------------------------------------------------
(* Inputs.                                                                 *)

Main == <<"main">>
ListA == <<"a">>

\* the list the package-level calls work on
PkgNames == {Main}

\* item texts handed to add: a word, two words, the empty string, a trailing
\* blank, a text that ends like a completion annotation, a text with a line break
PlainTexts == { <<"a">>, <<"b", " ", "a">> }
OddTexts ==
    { <<>>,
      <<"a", " ">>,
      <<"a", " ", "(", "completed:", " ", "soon", ")">>,
      <<"a", "\n", "b">> }
Texts == PlainTexts \cup OddTexts

\* the texts the package-level calls add
PkgTexts == PlainTexts \cup { <<>>, <<"a", " ", "(", "completed:", " ", "soon", ")">> }

\* lines a user may have typed into a list file
LineUncheckedStamped ==
    <<"-", " ", "[", " ", "]", " ", "a", " ", "(", "completed:", " ", "2024-01-15 10:30", ")", "\n">>
LineBadStamp ==
    <<"-", " ", "[", "x", "]", " ", "b", " ", "(", "completed:", " ", "soon", ")", "\n">>
LineBlankText ==
    <<"-", " ", "[", "x", "]", " ", " ", " ", "(", "completed:", " ", "2024-01-15 10:30", ")", "\n">>
LineNotes == <<"notes", " ", "a", "\n">>
LineIndentedDone == <<" ", " ", "-", " ", "[", "x", "]", " ", "a">>
LineTooLong == <<"-", " ", "[", " ", "]", " ", LongRun, "\n">>

\* the list files a run may start from
HandWritten ==
    { HeaderText(Main) \o LineNotes \o LineUncheckedStamped \o LineBadStamp,
      LineBlankText \o LineIndentedDone,
      HeaderText(Main) \o LineBadStamp \o LineNotes,
      HeaderText(Main) \o LineTooLong }

NoDir == [dir |-> FALSE, files |-> <<>>, other |-> {}]

InitDirs ==
    {NoDir, CreateTodoFile(NoDir, Main)}
        \cup {PutFile(NoDir, Main, c) : c \in HandWritten}

ItemIDs == 0..(MaxItems + 1)

Idle == [op |-> "idle", name |-> <<>>, err |-> "", msg |-> "", shown |-> <<>>]

\* the call that ran last, the list it named, the error it returned
Result(op, name, err) ==
    [op |-> op, name |-> name, err |-> err, msg |-> "", shown |-> <<>>]

\* the command that ran last, the list it worked on, the error of the package
\* call it made, the line it printed about its outcome
Printed(op, name, err, msg) ==
    [op |-> op, name |-> name, err |-> err, msg |-> msg, shown |-> <<>>]

\* a command that also displayed a list, an overview or a history: `shown` is
\* the sequence of the lines it displayed, one record per line
Displayed(op, name, err, msg, shown) ==
    [op |-> op, name |-> name, err |-> err, msg |-> msg, shown |-> shown]

\* the items a read of list `name` returns
Items(dir, name) == ParseTodoFile(dir, name).Items

IsBlank(text) == \A i \in 1..Len(text) : IsSpace(text[i])

\* some item of the list has a text of blanks only
HasBlankText(dir, name) ==
    LET items == Items(dir, name)
    IN \E i \in 1..Len(items) : IsBlank(items[i].Text)

\* the completedAt a read returns for item `id`, Nil when there is no such item
CompletedAt(dir, name, id) ==
    LET items == Items(dir, name)
    IN IF id \in 1..Len(items) THEN items[id].CompletedTime ELSE Nil

NoCycle == [phase |-> 0, id |-> 0, first |-> Nil, firstAt |-> 0, at |-> 0, blank |-> FALSE]

\* history of check(i), uncheck(i), check(i), the calls of TestUncheckTodoItem
\* and one more check: phase 1 after a check, 2 after the uncheck of the same
\* item that follows it, 3 after the check that follows that.  `first` is the
\* completedAt the first check left in the file, `firstAt` the clock of the
\* first check, `at` the clock of the latest check, `blank` whether the list
\* held a blank text before the first check.
CycleAfterCheck(c, before, after, name, id, clock) ==
    IF c.phase = 2 /\ c.id = id THEN [c EXCEPT !.phase = 3, !.at = clock]
    ELSE [phase |-> 1, id |-> id,
          first |-> CompletedAt(after, name, id),
          firstAt |-> clock,
          at |-> clock,
          blank |-> HasBlankText(before, name)]

CycleAfterUncheck(c, id) ==
    IF c.phase = 1 /\ c.id = id THEN [c EXCEPT !.phase = 2] ELSE NoCycle

---------------------------------------------------------------------------
(* Package-level calls on one list file.                                   *)

gitVars == <<isRepo, hasCommits, branches, head>>

InitPkg ==
    /\ fs \in InitDirs
    /\ now = 0
    /\ isRepo = TRUE /\ hasCommits = TRUE
    /\ branches = {Main} /\ head = Main
    /\ mem = <<>>
    /\ out = Idle
    /\ cyc = NoCycle

\* time passes between two calls
Tick ==
    /\ now < MaxNow
    /\ now' = now + 1
    /\ out' = Result("tick", <<>>, "")
    /\ UNCHANGED <<fs, gitVars, mem, cyc>>

CallCreate(name) ==
    /\ fs' = CreateTodoFile(fs, name)
    /\ out' = Result("create", name, "")
    /\ UNCHANGED <<now, gitVars, mem, cyc>>

CallRead(name) ==
    /\ out' = Result("read", name, ParseTodoFile(fs, name).err)
    /\ UNCHANGED <<fs, now, gitVars, mem, cyc>>

CallAdd(name, text) ==
    /\ Len(Items(fs, name)) < MaxItems
    /\ LET r == AddTodoItem(fs, name, text)
       IN fs' = r.dir /\ out' = Result("add", name, r.err)
    /\ UNCHANGED <<now, gitVars, mem, cyc>>

\* CheckTodoItem reads the clock once
DoCheck(name, id) ==
    LET r == CheckTodoItem(fs, name, id, now)
    IN /\ fs' = r.dir
       /\ out' = Result("check", name, r.err)
       /\ UNCHANGED <<now, gitVars, mem>>

DoUncheck(name, id) ==
    LET r == UncheckTodoItem(fs, name, id)
    IN /\ fs' = r.dir
       /\ out' = Result("uncheck", name, r.err)
       /\ UNCHANGED <<now, gitVars, mem>>

CallCheck(name, id) == DoCheck(name, id) /\ UNCHANGED cyc

CallUncheck(name, id) == DoUncheck(name, id) /\ UNCHANGED cyc

NextPkg ==
    \/ Tick
    \/ \E name \in PkgNames : CallCreate(name)
    \/ \E name \in PkgNames : CallRead(name)
    \/ \E name \in PkgNames, text \in PkgTexts : CallAdd(name, text)
    \/ \E name \in PkgNames, id \in ItemIDs : CallCheck(name, id)
    \/ \E name \in PkgNames, id \in ItemIDs : CallUncheck(name, id)

Spec == InitPkg /\ [][NextPkg]_vars

---------------------------------------------------------------------------
(* check / uncheck / check on one item, with its history.                  *)

CycleCheck(name, id) ==
    /\ DoCheck(name, id)
    /\ cyc' = IF out'.err = "" THEN CycleAfterCheck(cyc, fs, fs', name, id, now) ELSE cyc

CycleUncheck(name, id) ==
    /\ DoUncheck(name, id)
    /\ cyc' = IF out'.err = "" THEN CycleAfterUncheck(cyc, id) ELSE cyc

NextCycle ==
    \/ Tick
    \/ \E name \in PkgNames, text \in PlainTexts : CallAdd(name, text)
    \/ \E name \in PkgNames, id \in ItemIDs : CycleCheck(name, id)
    \/ \E name \in PkgNames, id \in ItemIDs : CycleUncheck(name, id)

SpecCycle == InitPkg /\ [][NextCycle]_vars

---------------------------------------------------------------------------
(* WriteTodoFile then ParseTodoFile on item sequences built in memory.     *)

\* the item texts handed to the codec, none with a line break
CodecTexts ==
    { <<"a">>, <<>>, <<"a", " ">>, <<"a", " ", "(", "completed:", " ", "soon", ")">> }

\* completion times: the start of a minute, inside that minute, the next minute
CodecTimes == {0, 1, TicksPerMinute}

\* an item that is not completed has no completedAt
CodecShapes ==
    {[Text |-> t, Completed |-> FALSE, CompletedTime |-> Nil] : t \in CodecTexts}
        \cup {[Text |-> t, Completed |-> TRUE, CompletedTime |-> c] :
                 t \in CodecTexts, c \in CodecTimes \cup {Nil}}

\* the item sequences, numbered from 1
CodecLists ==
    { [i \in DOMAIN f |-> TodoItem(i, f[i].Text, f[i].Completed, f[i].CompletedTime)] :
        f \in UNION {[1..n -> CodecShapes] : n \in 0..MaxCodecLen} }

\* the directory before the write: no file, or a longer file a user edited
CodecDirs ==
    { NoDir,
      PutFile(NoDir, Main,
              HeaderText(Main) \o LineNotes \o LineUncheckedStamped \o LineBadStamp
                  \o LineNotes \o LineNotes \o LineNotes) }

InitCodec ==
    /\ fs \in CodecDirs
    /\ mem \in CodecLists
    /\ now = 0
    /\ isRepo = TRUE /\ hasCommits = TRUE
    /\ branches = {Main} /\ head = Main
    /\ out = Idle
    /\ cyc = NoCycle

CodecWrite ==
    /\ out.op = "idle"
    /\ fs' = WriteTodoFile(fs, Main, mem)
    /\ out' = Result("write", Main, "")
    /\ UNCHANGED <<now, gitVars, mem, cyc>>

CodecRead ==
    /\ out.op = "write"
    /\ out' = Result("read", Main, ParseTodoFile(fs, Main).err)
    /\ UNCHANGED <<fs, now, gitVars, mem, cyc>>

NextCodec == CodecWrite \/ CodecRead

SpecCodec == InitCodec /\ [][NextCodec]_vars

---------------------------------------------------------------------------
(* The commands of main.go on a repository with two list names.            *)

ListNames == {Main, ListA}

\* the text the add command is given
CliTexts == { <<"a">> }

\* the item-number argument of check and uncheck
CheckArgs == { <<"0">>, <<"1">>, <<"9", "9">>, <<"x">>, <<"1", "x">> }

\* what the user types at a (y/N) prompt: y, YES and a blank, n, nothing, and
\* y with the input ending before a line break
Responses ==
    { <<"y", "\n">>, <<"Y", "E", "S", " ", "\n">>, <<"n", "\n">>, <<"\n">>, <<"y">> }

\* the arguments of progress: none or one list name
ProgressArgs == {<<>>} \cup {<<listName>> : listName \in ListNames}

\* the branches a repository of the model can hold
AllBranches == {Main} \cup {FeatureBranch(listName) : listName \in ListNames}

\* a setup test that looks for the repository only
RequiresGitSetupRepoOnly == ~isRepo

\* requiresGitSetup
RequiresGitSetup == ~isRepo \/ ~hasCommits

\* the directory before the first command: empty, or with a list file for
\* main that a user wrote
CliDirs ==
    { NoDir,
      PutFile(NoDir, Main, LineNotes \o <<"-", " ", "[", " ", "]", " ", "a", " ", "\n">>) }

\* no repository, a repository without commits, a repository with a commit on main
InitCLI ==
    /\ fs \in CliDirs
    /\ now = 0
    /\ \/ isRepo = FALSE /\ hasCommits = FALSE /\ branches = {}
       \/ isRepo = TRUE /\ hasCommits = FALSE /\ branches = {}
       \/ isRepo = TRUE /\ hasCommits = TRUE /\ branches = {Main}
    /\ head = Main
    /\ mem = <<>>
    /\ out = Idle
    /\ cyc = NoCycle

\* todo init: git init when there is no repository, a first commit when there is none
CmdInit ==
    /\ isRepo' = TRUE
    /\ hasCommits' = TRUE
    /\ branches' = IF hasCommits THEN branches ELSE branches \cup {head}
    /\ out' = Printed("init", <<>>, "", "Todo repository initialized successfully!")
    /\ UNCHANGED <<fs, now, head, mem, cyc>>

\* a command that stops at requiresGitSetup
SetupHint(op) ==
    /\ out' = Printed(op, <<>>, "", "Run 'todo init'")
    /\ UNCHANGED <<fs, now, gitVars, mem, cyc>>

\* todo add <text>
CmdAdd(text) ==
    IF RequiresGitSetup THEN SetupHint("add")
    ELSE LET featureName == GetFeatureName(head)
             r == AddTodoItem(fs, featureName, text)
         IN /\ fs' = r.dir
            /\ out' = Printed("add", featureName, r.err,
                              IF r.err # "" THEN "Error adding todo item"
                              ELSE "Added todo item")
            /\ UNCHANGED <<now, gitVars, mem, cyc>>

\* todo add <text>, offered while the current list holds fewer than `limit` items
AddWithin(limit, text) ==
    /\ Len(Items(fs, GetFeatureName(head))) < limit
    /\ CmdAdd(text)

\* todo check <item-number>
CmdCheck(itemNumber) ==
    IF RequiresGitSetup THEN SetupHint("check")
    ELSE LET featureName == GetFeatureName(head)
             itemID == Atoi(itemNumber)
             r == CheckTodoItem(fs, featureName, itemID.n, now)
         IN /\ IF itemID.err
               THEN /\ fs' = fs
                    /\ out' = Printed("check", featureName, "", "Invalid item number")
               ELSE /\ fs' = r.dir
                    /\ out' = Printed("check", featureName, r.err,
                                      IF r.err # "" THEN "Error checking todo item"
                                      ELSE "Marked item as completed")
            /\ UNCHANGED <<now, gitVars, mem, cyc>>

\* todo uncheck <item-number>
CmdUncheck(itemNumber) ==
    IF RequiresGitSetup THEN SetupHint("uncheck")
    ELSE LET featureName == GetFeatureName(head)
             itemID == Atoi(itemNumber)
             r == UncheckTodoItem(fs, featureName, itemID.n)
         IN /\ IF itemID.err
               THEN /\ fs' = fs
                    /\ out' = Printed("uncheck", featureName, "", "Invalid item number")
               ELSE /\ fs' = r.dir
                    /\ out' = Printed("uncheck", featureName, r.err,
                                      IF r.err # "" THEN "Error unchecking todo item"
                                      ELSE "Marked item as not completed")
            /\ UNCHANGED <<now, gitVars, mem, cyc>>

\* todo progress, todo progress <list-name>, todo progress --all
CmdProgress(showAll, args) ==
    IF RequiresGitSetup THEN SetupHint("progress")
    ELSE IF showAll
    THEN IF Len(args) > 0
         THEN /\ out' = Printed("progress", <<>>, "", "Cannot use --all flag with list name")
              /\ UNCHANGED <<fs, now, gitVars, mem, cyc>>
         ELSE LET all == ListAllFeatures(fs)
              IN /\ fs' = all.dir
                 /\ out' = Displayed("progress", <<>>, "", "", all.shown)
                 /\ UNCHANGED <<now, gitVars, mem, cyc>>
    ELSE LET listName == IF Len(args) = 1 THEN args[1] ELSE GetFeatureName(head)
             list == DisplayTodoList(fs, listName)
         IN /\ out' = IF Len(args) = 1 /\ ~TodoFileExists(fs, listName)
                      THEN Printed("progress", listName, "", "List does not exist")
                      ELSE Displayed("progress", listName, list.err,
                                     IF list.err # "" THEN "Error displaying todo list" ELSE "",
                                     list.shown)
            /\ UNCHANGED <<fs, now, gitVars, mem, cyc>>

\* todo list and todo list --delete, both without a list name
CmdList(deleteFlag) ==
    IF RequiresGitSetup THEN SetupHint("list")
    ELSE IF deleteFlag
    THEN /\ out' = Printed("delete", <<>>, "", "--delete requires a list name")
         /\ UNCHANGED <<fs, now, gitVars, mem, cyc>>
    ELSE LET all == ListAllFeatures(fs)
         IN /\ fs' = all.dir
            /\ out' = Displayed("list", <<>>, "", "", all.shown)
            /\ UNCHANGED <<now, gitVars, mem, cyc>>

\* todo history
CmdHistory ==
    IF RequiresGitSetup THEN SetupHint("history")
    ELSE LET history == ShowHistory(fs)
         IN /\ fs' = history.dir
            /\ out' = Displayed("history", <<>>, "", "", history.shown)
            /\ UNCHANGED <<now, gitVars, mem, cyc>>

\* a switch that never asks
SwitchAnswerUnasked(hasChanges, input) == "yes"

\* the prompt of todo list <list-name>: asked only with uncommitted changes
SwitchAnswer(hasChanges, input) == IF hasChanges THEN Confirmation(input) ELSE "yes"

\* todo list <list-name>: switch to the branch of the list or create it, and
\* create the list file when there is none.  hasChanges is what git status
\* reports, gitOk whether git checkout succeeds.
CmdListSwitch(listName, hasChanges, input, gitOk) ==
    IF RequiresGitSetup THEN SetupHint("list")
    ELSE LET branchName == FeatureBranch(listName)
             answer == SwitchAnswer(hasChanges, input)
             made == IF TodoFileExists(fs, listName) THEN fs
                     ELSE CreateTodoFile(fs, listName)
             list == DisplayTodoList(made, listName)
         IN IF answer # "yes"
            THEN /\ out' = Printed("list", listName, "",
                                   IF answer = "error" THEN "Error reading input"
                                   ELSE "Operation cancelled.")
                 /\ UNCHANGED <<fs, now, gitVars, mem, cyc>>
            ELSE IF ~gitOk
            THEN /\ out' = Printed("list", listName, "",
                                   IF BranchExists(branches, branchName)
                                   THEN "Error switching to branch"
                                   ELSE "Error creating branch")
                 /\ UNCHANGED <<fs, now, gitVars, mem, cyc>>
            ELSE /\ head' = branchName
                 /\ branches' = branches \cup {branchName}
                 /\ fs' = made
                 /\ out' = Displayed("list", listName, list.err,
                                     IF BranchExists(branches, branchName)
                                     THEN "Switched to existing list"
                                     ELSE "Created and switched to list",
                                     list.shown)
                 /\ UNCHANGED <<now, isRepo, hasCommits, mem, cyc>>

\* a delete that leaves the repository on the default branch
HeadAfterDeleteOnMain(currentBranch, branchName) == Main

\* DeleteBranch runs git branch -D, which leaves HEAD where it is
HeadAfterDelete(currentBranch, branchName) == currentBranch

\* todo list --delete <list-name>.  gitOk is whether git branch -D succeeds.
CmdListDelete(listName, input, gitOk) ==
    IF RequiresGitSetup THEN SetupHint("delete")
    ELSE LET branchName == FeatureBranch(listName)
             currentBranch == head
             answer == Confirmation(input)
         IN IF currentBranch = branchName
            THEN /\ out' = Printed("delete", listName, "", "Cannot delete list")
                 /\ UNCHANGED <<fs, now, gitVars, mem, cyc>>
            ELSE IF ~BranchExists(branches, branchName)
            THEN /\ out' = Printed("delete", listName, "", "List does not exist")
                 /\ UNCHANGED <<fs, now, gitVars, mem, cyc>>
            ELSE IF answer # "yes"
            THEN /\ out' = Printed("delete", listName, "",
                                   IF answer = "error" THEN "Error reading input"
                                   ELSE "Delete cancelled.")
                 /\ UNCHANGED <<fs, now, gitVars, mem, cyc>>
            ELSE IF ~gitOk
            THEN /\ out' = Printed("delete", listName, "", "Error deleting branch")
                 /\ UNCHANGED <<fs, now, gitVars, mem, cyc>>
            ELSE /\ branches' = branches \ {branchName}
                 /\ head' = HeadAfterDelete(currentBranch, branchName)
                 /\ fs' = RemoveFile(fs, listName)
                 /\ out' = Printed("delete", listName, "", "Successfully deleted list")
                 /\ UNCHANGED <<now, isRepo, hasCommits, mem, cyc>>

\* the user runs git checkout <branch> between two commands
GitCheckout(branchName) ==
    /\ ~RequiresGitSetup
    /\ BranchExists(branches, branchName)
    /\ branchName # head
    /\ head' = branchName
    /\ out' = Printed("checkout", <<>>, "", "")
    /\ UNCHANGED <<fs, now, isRepo, hasCommits, branches, mem, cyc>>

NextCLI ==
    \/ CmdInit
    \/ \E text \in CliTexts : AddWithin(MaxCliItems, text)
    \/ \E itemNumber \in CheckArgs : CmdCheck(itemNumber)
    \/ \E itemNumber \in CheckArgs : CmdUncheck(itemNumber)
    \/ \E showAll \in BOOLEAN, args \in ProgressArgs : CmdProgress(showAll, args)
    \/ \E deleteFlag \in BOOLEAN : CmdList(deleteFlag)
    \/ CmdHistory
    \/ \E listName \in ListNames, gitOk \in BOOLEAN :
          CmdListSwitch(listName, FALSE, <<>>, gitOk)
    \/ \E listName \in ListNames, input \in Responses :
          CmdListSwitch(listName, TRUE, input, TRUE)
    \/ \E listName \in ListNames, input \in Responses, gitOk \in BOOLEAN :
          CmdListDelete(listName, input, gitOk)
    \/ \E branchName \in AllBranches : GitCheckout(branchName)

SpecCLI == InitCLI /\ [][NextCLI]_vars

---------------------------------------------------------------------------
(* Claims about the package-level calls (Spec).                            *)

\* C2: for a list of N >= 0 items (a missing file included) and any text,
\* AddTodoItem succeeds and a following read returns the N items unchanged
\* and in order, then one item with ID N+1, the given text, not completed
\* and without completedAt.
C2_AddAppends ==
    [][\A name \in PkgNames, text \in PkgTexts :
          (CallAdd(name, text) /\ ParseTodoFile(fs, name).err = "") =>
              /\ out'.err = ""
              /\ ParseTodoFile(fs', name).err = ""
              /\ Items(fs', name) =
                   Append(Items(fs, name),
                          TodoItem(Len(Items(fs, name)) + 1, text, FALSE, Nil))]_vars

\* the lines of `content` that match the checkbox pattern, in file order
MatchingLines(content) ==
    SelectSeq(ScanLines(content), LAMBDA l : FindStringSubmatch(TrimSpace(l)).ok)

\* C5: every list a read returns, whatever the file holds and after any calls
\* of add, check and uncheck, has the IDs 1..N in file order, N the number of
\* lines that match the checkbox pattern.
C5_DenseIDs ==
    \A name \in DOMAIN fs.files :
        LET read == ParseTodoFile(fs, name)
            lines == MatchingLines(fs.files[name])
        IN read.err = "" =>
              /\ Len(read.Items) = Len(lines)
              /\ \A i \in 1..Len(read.Items) :
                    /\ read.Items[i].ID = i
                    /\ read.Items[i].Text = FindStringSubmatch(TrimSpace(lines[i])).text

\* a list of two items read from a file that also holds lines that are no
\* items, after a successful uncheck
C5_Witness ==
    /\ out.op = "uncheck" /\ out.err = ""
    /\ Len(Items(fs, Main)) = 2
    /\ Len(ScanLines(fs.files[Main])) = 4

\* C6: in every list a read returns, whatever the file holds and after any
\* calls of add, check and uncheck, an item that is not completed has no
\* completedAt.
C6_UncompletedHasNoTime ==
    \A name \in DOMAIN fs.files :
        \A i \in 1..Len(Items(fs, name)) :
            ~Items(fs, name)[i].Completed => Items(fs, name)[i].CompletedTime = Nil

\* a file with an unchecked line that carries a well-formed timestamp
C6_Witness ==
    /\ Main \in DOMAIN fs.files
    /\ \E i \in 1..Len(ScanLines(fs.files[Main])) :
          LET match == FindStringSubmatch(TrimSpace(ScanLines(fs.files[Main])[i]))
          IN match.ok /\ match.mark = " " /\ ParseTime(match.stamp) # Nil

C10_CreateIdempotent ==
    [][\A name \in PkgNames :
          CallCreate(name) =>
              /\ out'.err = ""
              /\ fs'.dir
              /\ DOMAIN fs'.files = DOMAIN fs.files \cup {name}
              /\ \A n \in DOMAIN fs.files : fs'.files[n] = fs.files[n]
              /\ ~TodoFileExists(fs, name) => fs'.files[name] = HeaderText(name)
              /\ CreateTodoFile(fs', name) = fs']_vars

\* create has run on a list that holds two items
C10_Witness ==
    /\ out.op = "create"
    /\ Len(Items(fs, Main)) = 2

---------------------------------------------------------------------------
(* Claims about check / uncheck / check (SpecCycle).                       *)

\* C4 as stated: check(i) then uncheck(i) leaves item i not completed and
\* without completedAt, and the check(i) after that leaves it completed with a
\* completedAt later than the one the first check produced.  Stated for lists
\* without blank texts and for a second check that reads a later clock than
\* the first.
C4_LaterStamp ==
    (~cyc.blank /\ (cyc.phase = 3 => cyc.at > cyc.firstAt)) =>
        /\ cyc.phase = 2 =>
              /\ cyc.id \in 1..Len(Items(fs, Main))
              /\ ~Items(fs, Main)[cyc.id].Completed
              /\ Items(fs, Main)[cyc.id].CompletedTime = Nil
        /\ cyc.phase = 3 =>
              /\ cyc.id \in 1..Len(Items(fs, Main))
              /\ Items(fs, Main)[cyc.id].Completed
              /\ Items(fs, Main)[cyc.id].CompletedTime > cyc.first

---------------------------------------------------------------------------
(* Claims about the codec (SpecCodec).                                     *)

\* C1: for every item sequence of N >= 0 items whose texts hold no line
\* break, WriteTodoFile followed by ParseTodoFile returns N items with, position
\* by position, the same text, completed flag and completedAt, and the IDs 1..N.
C1_RoundTrip ==
    (out.op = "read" /\ \A i \in 1..Len(mem) : \A k \in 1..Len(mem[i].Text) : mem[i].Text[k] # "\n")
        => LET read == ParseTodoFile(fs, Main)
           IN /\ read.err = ""
              /\ Len(read.Items) = Len(mem)
              /\ \A i \in 1..Len(mem) :
                    /\ read.Items[i].ID = i
                    /\ read.Items[i].Text = mem[i].Text
                    /\ read.Items[i].Completed = mem[i].Completed
                    /\ read.Items[i].CompletedTime = mem[i].CompletedTime

\* the line the format prescribes for one item
ExpectedLine(item) ==
    <<"-", " ", "[", IF item.Completed THEN "x" ELSE " ", "]", " ">>
        \o item.Text
        \o (IF item.Completed /\ item.CompletedTime # Nil
            THEN <<" ", "(", "completed:", " ",
                   TimeTokens[(item.CompletedTime \div TicksPerMinute) + 1], ")">>
            ELSE <<>>)
        \o <<"\n">>

\* the lines of the first n items, in order
RECURSIVE ExpectedLines(_, _)
ExpectedLines(items, n) ==
    IF n = 0 THEN <<>> ELSE ExpectedLines(items, n - 1) \o ExpectedLine(items[n])

\* C7: after WriteTodoFile(name, items) the file holds exactly the header line
\* "# Todo List for <name>", an empty line, and one line per item in order:
\* "- [ ] <text>" for an item that is not completed, "- [x] <text> (completed:
\* YYYY-MM-DD HH:MM)" for a completed item with a timestamp, "- [x] <text>" for
\* a completed item without one; nothing of the previous content is left.
C7_WrittenDocument ==
    out.op = "write" =>
        /\ fs.dir
        /\ DOMAIN fs.files = {Main}
        /\ fs.files[Main] =
              <<"#", " ", "Todo List for", " ", "main", "\n", "\n">>
                  \o ExpectedLines(mem, Len(mem))

\* a write over a longer file of a completed item with a timestamp and one
\* that is not completed
C7_Witness ==
    /\ out.op = "write"
    /\ Len(mem) = 2
    /\ mem[1].Completed /\ mem[1].CompletedTime # Nil
    /\ ~mem[2].Completed
    /\ Len(fs.files[Main]) < Len(HeaderText(Main) \o LineNotes \o LineUncheckedStamped
                                    \o LineBadStamp \o LineNotes \o LineNotes \o LineNotes)

---------------------------------------------------------------------------
(* Claims about the commands (SpecCLI).                                    *)

\* C3: check and uncheck with an item number that is not a number, is below 1
\* or is above the number of items of the current list report an invalid item
\* number or ID and write nothing: the list file stays as it is, a missing list
\* file stays missing.
C3_InvalidIDNoWrite ==
    [][\A itemNumber \in CheckArgs :
          LET featureName == GetFeatureName(head)
              itemID == Atoi(itemNumber)
              count == Len(Items(fs, featureName))
          IN ( /\ ~RequiresGitSetup
               /\ out'.op \in {"check", "uncheck"}
               /\ itemID.err \/ itemID.n < 1 \/ itemID.n > count
               /\ CmdCheck(itemNumber) \/ CmdUncheck(itemNumber) )
             => /\ fs' = fs
                /\ IF itemID.err THEN out'.msg = "Invalid item number"
                   ELSE out'.err = "invalid item ID"]_vars

\* an uncheck with a number above the item count has run on a list file a
\* user wrote, which still holds its notes line and its one item
C3_Witness ==
    /\ out.op = "uncheck" /\ out.err = "invalid item ID" /\ out.name = Main
    /\ TodoFileExists(fs, Main)
    /\ fs.files[Main][1] = "notes"
    /\ Len(Items(fs, Main)) = 1

\* C8: todo list --delete L, with L the list the active branch resolves to,
\* deletes no branch and removes no list file, in every branch configuration.
C8_CurrentListKept ==
    [][\A listName \in ListNames, input \in Responses, gitOk \in BOOLEAN :
          ( /\ CmdListDelete(listName, input, gitOk)
            /\ ~RequiresGitSetup
            /\ GetFeatureName(head) = listName )
          => branches' = branches /\ fs' = fs]_vars

---------------------------------------------------------------------------
(* GetFeatureName on branch names of every shape.                          *)

\* path segments of branch names: the prefix, two names, a name that only
\* starts like the prefix
Segments == {"feature", "a", "main", "features"}

BranchNames == UNION {[1..n -> Segments] : n \in 1..MaxSegments}

\* a repository whose active branch is any of the names
InitName ==
    /\ head \in BranchNames
    /\ branches = {head}
    /\ isRepo = TRUE /\ hasCommits = TRUE
    /\ fs = NoDir
    /\ now = 0
    /\ mem = <<>>
    /\ out = Idle
    /\ cyc = NoCycle

CallGetFeatureName ==
    /\ out.op = "idle"
    /\ out' = Result("name", GetFeatureName(head), "")
    /\ UNCHANGED <<fs, now, gitVars, mem, cyc>>

NextName == CallGetFeatureName

SpecName == InitName /\ [][NextName]_vars

\* C11: the current list name is the active branch name without the prefix
\* "feature/" when the branch name starts with it, and the whole branch name
\* otherwise.  Stated on the names as they are printed, "/" between segments.
C11_PrefixStripped ==
    out.op = "name" =>
        LET branchName == JoinPath(head)
        IN JoinPath(out.name) =
              IF Len(branchName) >= 2 /\ branchName[1] = "feature" /\ branchName[2] = "/"
              THEN SubSeq(branchName, 3, Len(branchName))
              ELSE branchName

\* the name of branch feature/feature/a has been resolved to feature/a
C11_Witness ==
    /\ out.op = "name"
    /\ head = <<"feature", "feature", "a">>
    /\ out.name = <<"feature", "a">>

---------------------------------------------------------------------------
(* Claims about lists and branches (SpecCLI).                              *)

\* a todo list <list-name> step that printed one of its two success lines and
\* displayed the list
SwitchDone(listName) ==
    /\ out'.msg \in {"Switched to existing list", "Created and switched to list"}
    /\ out'.err = ""
    /\ \E hasChanges \in BOOLEAN, input \in Responses \cup {<<>>}, gitOk \in BOOLEAN :
          CmdListSwitch(listName, hasChanges, input, gitOk)

\* C12: after a successful todo list L, whether branch feature/L and the file
\* of L existed or not, the active branch is feature/L, the current list name
\* is L, .todo/L.md exists, and a file that existed has its content unchanged.
C12_SwitchLandsOnList ==
    [][\A listName \in ListNames :
          SwitchDone(listName) =>
              /\ head' = <<"feature">> \o listName
              /\ head' \in branches'
              /\ GetFeatureName(head') = listName
              /\ TodoFileExists(fs', listName)
              /\ TodoFileExists(fs, listName) => fs'.files[listName] = fs.files[listName]
              /\ Items(fs', listName) = Items(fs, listName)
              /\ \A n \in DOMAIN fs.files : fs'.files[n] = fs.files[n]]_vars

\* a switch to list a from another branch has found the file of a with an item
\* in it and its branch deleted by hand or never made
C12_Witness ==
    /\ out.op = "list" /\ out.name = ListA
    /\ out.msg = "Switched to existing list"
    /\ head = FeatureBranch(ListA)
    /\ Len(Items(fs, ListA)) = 1
    /\ TodoFileExists(fs, Main)

\* C13: a successful todo list L prints "Created and switched to list" exactly
\* when branch feature/L did not exist before the command and "Switched to
\* existing list" exactly when it did.
C13_CreatedOrExisting ==
    [][\A listName \in ListNames :
          SwitchDone(listName) =>
              /\ out'.msg = "Created and switched to list"
                    <=> (<<"feature">> \o listName) \notin branches
              /\ out'.msg = "Switched to existing list"
                    <=> (<<"feature">> \o listName) \in branches]_vars

\* list a has been created, deleted, and created again
C13_Witness ==
    /\ out.op = "list" /\ out.name = ListA
    /\ out.msg = "Created and switched to list"
    /\ TodoFileExists(fs, ListA) /\ Len(Items(fs, ListA)) = 0
    /\ FeatureBranch(Main) \in branches

\* the answer as the claims read it: lower-cased and trimmed, y or yes
SaysYes(input) ==
    LET response == TrimSpace(ToLower(input))
    IN response = <<"y">> \/ response = <<"y", "e", "s">>

\* C14: unless the answer at the prompt, trimmed and lower-cased, is y or yes,
\* todo list --delete L deletes no branch and removes no list file.
C14_DeleteNeedsYes ==
    [][\A listName \in ListNames, input \in Responses, gitOk \in BOOLEAN :
          (~SaysYes(input) /\ CmdListDelete(listName, input, gitOk)) =>
              /\ branches' = branches
              /\ fs' = fs
              /\ head' = head]_vars

\* a delete of an existing list that is not the current one has been answered
\* with something else than yes
C14_Witness ==
    /\ out.op = "delete" /\ out.msg = "Delete cancelled."
    /\ FeatureBranch(out.name) \in branches
    /\ TodoFileExists(fs, out.name)

C16_SwitchNeedsYes ==
    [][\A listName \in ListNames, input \in Responses, gitOk \in BOOLEAN :
          ( /\ ~(~isRepo \/ ~hasCommits)
            /\ ~SaysYes(input)
            /\ CmdListSwitch(listName, TRUE, input, gitOk) )
          => /\ head' = head
             /\ branches' = branches
             /\ fs' = fs
             /\ out'.msg = "Operation cancelled."]_vars

\* a switch to a list that has neither branch nor file was cancelled
C16_Witness ==
    /\ out.op = "list" /\ out.msg = "Operation cancelled."
    /\ FeatureBranch(out.name) \notin branches
    /\ ~TodoFileExists(fs, out.name)
    /\ head # FeatureBranch(out.name)

\* the step is one of add, check, uncheck, progress, list or history
GuardedCommand ==
    \/ \E text \in CliTexts : CmdAdd(text)
    \/ \E itemNumber \in CheckArgs : CmdCheck(itemNumber) \/ CmdUncheck(itemNumber)
    \/ \E showAll \in BOOLEAN, args \in ProgressArgs : CmdProgress(showAll, args)
    \/ \E deleteFlag \in BOOLEAN : CmdList(deleteFlag)
    \/ CmdHistory
    \/ \E listName \in ListNames, hasChanges \in BOOLEAN, input \in Responses \cup {<<>>},
          gitOk \in BOOLEAN :
          \/ CmdListSwitch(listName, hasChanges, input, gitOk)
          \/ CmdListDelete(listName, input, gitOk)

\* C17: when the working directory is no git repository or the repository has
\* no commit, add, check, uncheck, progress, list and history print the setup
\* hint and change nothing: no list file, no .todo directory, no branch.
C17_HintOnly ==
    [][((~isRepo \/ ~hasCommits) /\ GuardedCommand) =>
          /\ out'.msg = "Run 'todo init'"
          /\ fs' = fs
          /\ branches' = branches
          /\ head' = head
          /\ isRepo' = isRepo /\ hasCommits' = hasCommits]_vars

\* history has printed the hint in a repository without commits and without
\* a .todo directory
C17_Witness ==
    /\ out.op = "history" /\ out.msg = "Run 'todo init'"
    /\ isRepo /\ ~hasCommits
    /\ ~fs.dir

---------------------------------------------------------------------------
(* add, check, uncheck and progress on one list (SpecProgress).            *)

ProgressTexts == { <<"a">>, <<>> }

ProgressNumbers == { <<"1">>, <<"2">>, <<"3">> }

InitProgress ==
    /\ fs = NoDir
    /\ now = 0
    /\ isRepo = TRUE /\ hasCommits = TRUE /\ branches = {Main}
    /\ head = Main
    /\ mem = <<>>
    /\ out = Idle
    /\ cyc = NoCycle

NextProgress ==
    \/ Tick
    \/ \E text \in ProgressTexts : AddWithin(MaxProgressItems, text)
    \/ \E itemNumber \in ProgressNumbers : CmdCheck(itemNumber)
    \/ \E itemNumber \in ProgressNumbers : CmdUncheck(itemNumber)
    \/ CmdProgress(FALSE, <<>>)

SpecProgress == InitProgress /\ [][NextProgress]_vars

\* the completion flags of the current list, one per item
Flags(dir) ==
    LET items == Items(dir, GetFeatureName(head))
    IN [i \in 1..Len(items) |-> items[i].Completed]

\* what a display says about progress: the numbers of its Progress line, and
\* 0 of 0 when it has none
Reported(shown) ==
    IF shown # <<>> /\ shown[Len(shown)].kind = "Progress"
    THEN [completed |-> shown[Len(shown)].completed, total |-> shown[Len(shown)].total]
    ELSE [completed |-> 0, total |-> 0]

\* C18: progress reports c/N with N the number of adds performed and c the
\* number of items last checked.  Step by step: an add that reports success
\* adds one unchecked item and keeps the others, a check or uncheck that
\* reports success sets the flag of its item only, and progress reports the
\* number of flags set out of the number of flags.
C18_ProgressCounts ==
    [][/\ \A text \in ProgressTexts :
             (out'.op = "add" /\ out'.err = "" /\ CmdAdd(text))
                 => Flags(fs') = Append(Flags(fs), FALSE)
       /\ \A itemNumber \in ProgressNumbers :
             /\ (out'.op = "check" /\ out'.err = "" /\ CmdCheck(itemNumber))
                    => Flags(fs') = [Flags(fs) EXCEPT ![Atoi(itemNumber).n] = TRUE]
             /\ (out'.op = "uncheck" /\ out'.err = "" /\ CmdUncheck(itemNumber))
                    => Flags(fs') = [Flags(fs) EXCEPT ![Atoi(itemNumber).n] = FALSE]
       /\ (out'.op = "progress" /\ CmdProgress(FALSE, <<>>))
              => Reported(out'.shown) =
                     [completed |-> Cardinality({i \in DOMAIN Flags(fs) : Flags(fs)[i]}),
                      total |-> Len(Flags(fs))]]_vars

---------------------------------------------------------------------------
(* The overview of all lists over directories of every shape               *)
(* (SpecOverview).                                                         *)

\* entries of .todo that are no list files of the tool: a text file, a
\* directory named like a list file, a symbolic link named like a list file
OtherEntries ==
    { [name |-> <<"notes", ".txt">>, kind |-> "file"],
      [name |-> <<"old", ".md">>, kind |-> "dir"],
      [name |-> <<"link", ".md">>, kind |-> "symlink"] }

\* t items of which the first c are completed
OverviewItems(t, c) ==
    [i \in 1..t |-> TodoItem(i, <<"a">>, i <= c, IF i <= c THEN 0 ELSE Nil)]

\* the item lists a file of the overview holds
OverviewShapes ==
    {OverviewItems(t, c) : t \in 0..MaxOverviewItems, c \in 0..MaxOverviewItems}

\* a list of the overview: no file, or a file with one of the item lists
OverviewFiles ==
    {[present |-> FALSE, items |-> <<>>]}
        \cup {[present |-> TRUE, items |-> items] : items \in OverviewShapes}

\* .todo with the other entries `others` and the files of main and a as given
OverviewDir(others, mainFile, aFile) ==
    LET base == [dir |-> others # {}, files |-> <<>>, other |-> others]
        one == IF mainFile.present THEN WriteTodoFile(base, Main, mainFile.items) ELSE base
    IN IF aFile.present THEN WriteTodoFile(one, ListA, aFile.items) ELSE one

InitOverview ==
    /\ \E others \in SUBSET OtherEntries :
       \E mainFile \in OverviewFiles :
       \E aFile \in OverviewFiles :
          fs = OverviewDir(others, mainFile, aFile)
    /\ now = 0
    /\ isRepo = TRUE /\ hasCommits = TRUE /\ branches = {Main}
    /\ head = Main
    /\ mem = <<>>
    /\ out = Idle
    /\ cyc = NoCycle

NextOverview ==
    \/ CmdList(FALSE)
    \/ CmdProgress(TRUE, <<>>)

SpecOverview == InitOverview /\ [][NextOverview]_vars

\* the state after an overview was printed
OverviewShown ==
    /\ out.op \in {"list", "progress"}
    /\ out.shown # <<>>
    /\ out.shown[1].kind \in {"Lists:", "No features found"}

\* the lines of the overview after its heading
OverviewLines == Tail(out.shown)

\* the percentages the README and the tests show
ShownPercentages ==
    { [completed |-> 2, total |-> 3, percentage |-> 67],
      [completed |-> 1, total |-> 5, percentage |-> 20],
      [completed |-> 0, total |-> 2, percentage |-> 0],
      [completed |-> 1, total |-> 1, percentage |-> 100] }

\* C19: the overview shows for a list with t > 0 items, c of them completed,
\* the line c/t completed (p%) with 67% for 2 of 3, 20% for 1 of 5, 0% for
\* 0 of 2 and 100% for 1 of 1, and No todos for a list without items.
C19_OverviewPercent ==
    OverviewShown =>
        \A i \in 1..Len(OverviewLines) :
            LET line == OverviewLines[i]
                items == Items(fs, line.name)
                completed == Cardinality({k \in 1..Len(items) : items[k].Completed})
            IN IF Len(items) = 0 THEN line.kind = "No todos"
               ELSE /\ line.kind = "completed"
                    /\ line.completed = completed
                    /\ line.total = Len(items)
                    /\ \A p \in ShownPercentages :
                          (p.completed = completed /\ p.total = Len(items))
                              => line.percentage = p.percentage

\* the names the overview lists, in its order
ListedNames == [i \in 1..Len(OverviewLines) |-> OverviewLines[i].name]

\* the stems of the entries of .todo of the kinds `kinds` named *.md
StemsOfKinds(kinds) ==
    {SubSeq(e.name, 1, Len(e.name) - 1) :
        e \in {d \in DirEntries(fs) : d.kind \in kinds /\ d.name[Len(d.name)] = ".md"}}

---------------------------------------------------------------------------
(* Claims about what a rewrite keeps (Spec).                               *)

\* C21: check(i) and uncheck(i) with a valid ID change only item i: the number
\* of items, their order, and the text, completed flag and completedAt of every
\* other item are the same before and after, and the text of item i is
\* unchanged.
C21_OnlyItemChanged ==
    [][\A name \in PkgNames, id \in ItemIDs :
          ( /\ out'.op \in {"check", "uncheck"}
            /\ out'.err = ""
            /\ CallCheck(name, id) \/ CallUncheck(name, id) )
          => LET before == Items(fs, name)
                 after == Items(fs', name)
             IN /\ Len(after) = Len(before)
                /\ \A j \in 1..Len(before) :
                      /\ after[j].ID = before[j].ID
                      /\ after[j].Text = before[j].Text
                      /\ j # id => after[j] = before[j]]_vars

\* the line starts with a checkbox: "- [ ] " or "- [x] "
StartsWithCheckbox(l) ==
    /\ Len(l) >= 6
    /\ l[1] = "-" /\ l[2] = " " /\ l[3] = "["
    /\ l[4] \in {" ", "x"}
    /\ l[5] = "]" /\ l[6] = " "

\* C22: parsing never fails because of line content, lines that do not match
\* are skipped; and after a successful add, check or uncheck the file is the
\* header, a blank line and one checkbox line per item of the list written
\* (the items read before the call, and the new one after an add), so no
\* unrecognised line of the previous file is left.
C22_LossyRewrite ==
    [][\A name \in PkgNames :
          /\ ParseTodoFile(fs, name).err = ""
          /\ (out'.op \in {"add", "check", "uncheck"} /\ out'.err = "")
                => LET content == fs'.files[name]
                       header == HeaderText(name)
                       lines == ScanLines(SubSeq(content, Len(header) + 1, Len(content)))
                   IN /\ SubSeq(content, 1, Len(header)) = header
                      /\ \A k \in 1..Len(lines) : StartsWithCheckbox(lines[k])
                      /\ Len(lines) = Len(Items(fs, name))
                                         + (IF out'.op = "add" THEN 1 ELSE 0)]_vars

---------------------------------------------------------------------------
(* Reads of files a user wrote line by line (SpecRead).  mem holds the     *)
(* lines as records, fs the file made of them.                             *)

\* annotations time.Parse("2006-01-02 15:04", ...) rejects: a word, a time
\* with seconds, a time followed by more text, a blank
BadStamps ==
    { <<"soon">>, <<"2024-01-15 10:30:00">>, <<"2024-01-15 10:30", " ", "x">>, <<" ">> }

\* the lines of the files: completed items with an annotation that does not
\* parse, a notes line, an open item, a completed item with a good annotation
ReadLineKinds ==
    {[kind |-> "badstamp", text |-> t, stamp |-> b] :
        t \in {<<"b">>, <<"b", " ", "a">>}, b \in BadStamps}
        \cup { [kind |-> "notes", text |-> <<"notes">>, stamp |-> <<>>],
               [kind |-> "open", text |-> <<"a">>, stamp |-> <<>>],
               [kind |-> "done", text |-> <<"a">>, stamp |-> <<TimeTokens[1]>>] }

\* the text of a line
ReadLineText(d) ==
    IF d.kind = "notes" THEN d.text \o <<"\n">>
    ELSE IF d.kind = "open" THEN <<"-", " ", "[", " ", "]", " ">> \o d.text \o <<"\n">>
    ELSE <<"-", " ", "[", "x", "]", " ">> \o d.text
             \o <<" ", "(", "completed:", " ">> \o d.stamp \o <<")", "\n">>

RECURSIVE ReadFileText(_)
ReadFileText(ds) ==
    IF ds = <<>> THEN <<>> ELSE ReadLineText(Head(ds)) \o ReadFileText(Tail(ds))

InitRead ==
    /\ mem \in UNION {[1..n -> ReadLineKinds] : n \in 1..MaxReadLines}
    /\ fs = PutFile(NoDir, Main, HeaderText(Main) \o ReadFileText(mem))
    /\ now = 0
    /\ isRepo = TRUE /\ hasCommits = TRUE
    /\ branches = {Main} /\ head = Main
    /\ out = Idle
    /\ cyc = NoCycle

\* ParseTodoFile on the file
ReadCall ==
    /\ out.op = "idle"
    /\ out' = Result("read", Main, ParseTodoFile(fs, Main).err)
    /\ UNCHANGED <<fs, now, gitVars, mem, cyc>>

NextRead == ReadCall

SpecRead == InitRead /\ [][NextRead]_vars

\* the lines of mem that are items, in file order
ItemLinesOf(ds) == SelectSeq(ds, LAMBDA d : d.kind # "notes")

\* C23: a '- [x]' line whose '(completed: ...)' annotation does not parse as
\* YYYY-MM-DD HH:MM is read as a completed item without completedAt and with
\* the annotation stripped from its text; the lines after it are read as
\* usual and the read returns no error.
C23_BadStampRead ==
    out.op = "read" =>
        LET read == ParseTodoFile(fs, Main)
            want == ItemLinesOf(mem)
        IN /\ out.err = ""
           /\ read.err = ""
           /\ Len(read.Items) = Len(want)
           /\ \A i \in 1..Len(want) :
                 /\ read.Items[i].ID = i
                 /\ read.Items[i].Text = want[i].text
                 /\ read.Items[i].Completed = (want[i].kind # "open")
                 /\ read.Items[i].CompletedTime = (IF want[i].kind = "done" THEN 0 ELSE Nil)

\* a file whose first line has the annotation of a time with seconds and whose
\* second line is a completed item with a good annotation has been read
C23_Witness ==
    /\ out.op = "read" /\ out.err = ""
    /\ Len(mem) = 2
    /\ mem[1].kind = "badstamp" /\ mem[1].stamp = <<"2024-01-15 10:30:00">>
    /\ mem[2].kind = "done"
    /\ Len(Items(fs, Main)) = 2

---------------------------------------------------------------------------
(* Two invocations of the program on one list file (SpecRace).  Each runs  *)
(* ParseTodoFile in one step and WriteTodoFile in steps: os.Create, then    *)
(* one Fprintf at a time through its own file offset.  mem[p] is the memory *)
(* of invocation p, cyc holds the items the list held before both started. *)
(* SpecKill runs one invocation that may be killed during its write.       *)

Procs == {1, 2}

\* a byte of a hole: a write behind the end of a file fills the gap with zeros
Zero == "\\0"

\* the file after a write of `chunk` through a descriptor at offset `off`
WriteAt(content, off, chunk) ==
    [i \in 1..Max({Len(content), off + Len(chunk)}) |->
        IF i > off /\ i <= off + Len(chunk) THEN chunk[i - off]
        ELSE IF i <= Len(content) THEN content[i]
        ELSE Zero]

\* a writer that emits the header and no item line
ChunkHeaderOnly(name, list, k) == IF k = 0 THEN HeaderText(name) ELSE <<>>

\* the k-th Fprintf of WriteTodoFile: the header, then the line of item k
Chunk(name, list, k) == IF k = 0 THEN HeaderText(name) ELSE ItemLine(list[k])

\* a call that compares the file with what it read before it writes
ConflictIfChanged(readItems, fileItems) == readItems # fileItems

\* the check between the read and the write of a call: there is none
Conflict(readItems, fileItems) == FALSE

\* the error a call returns after its read
CallError(call, todoList) ==
    IF todoList.err # "" THEN "failed to parse todo file"
    ELSE IF call.op # "add" /\ InvalidItemID(todoList.Items, call.id) THEN "invalid item ID"
    ELSE ""

\* the list a call hands to WriteTodoFile
ListToWrite(call, items, clock) ==
    IF call.op = "add"
    THEN Append(items, TodoItem(Len(items) + 1, call.text, FALSE, Nil))
    ELSE IF call.op = "check"
    THEN [items EXCEPT ![call.id].Completed = TRUE, ![call.id].CompletedTime = clock]
    ELSE [items EXCEPT ![call.id].Completed = FALSE, ![call.id].CompletedTime = Nil]

\* the memory of an invocation after its read
AfterParse(m, todoList, clock) ==
    IF CallError(m.call, todoList) # ""
    THEN [m EXCEPT !.pc = "done", !.err = CallError(m.call, todoList)]
    ELSE [m EXCEPT !.pc = "parsed", !.read = todoList.Items,
                   !.list = ListToWrite(m.call, todoList.Items, clock)]

\* the calls of the two invocations
AddCall(text) == [op |-> "add", id |-> 0, text |-> text]
CheckCall(id) == [op |-> "check", id |-> id, text |-> <<>>]
UncheckCall(id) == [op |-> "uncheck", id |-> id, text |-> <<>>]

RaceCalls == { AddCall(<<"c">>), AddCall(<<"d", " ", "d">>), CheckCall(1), UncheckCall(1) }

\* the list before the calls: n open items a, b, a, ...
RaceItems(n) ==
    [i \in 1..n |-> TodoItem(i, IF i % 2 = 1 THEN <<"a">> ELSE <<"b">>, FALSE, Nil)]

\* an invocation that has not read yet
Started(call) ==
    [pc |-> "start", call |-> call, read |-> <<>>, list |-> <<>>, k |-> 0, off |-> 0,
     err |-> ""]

InitRace ==
    /\ \E n \in 0..MaxRaceItems :
          /\ fs = WriteTodoFile(NoDir, Main, RaceItems(n))
          /\ cyc = RaceItems(n)
    /\ mem \in [Procs -> {Started(call) : call \in RaceCalls}]
    /\ now = 0
    /\ isRepo = TRUE /\ hasCommits = TRUE
    /\ branches = {Main} /\ head = Main
    /\ out = Idle

\* ParseTodoFile and the change of the list in memory
RaceParse(p) ==
    /\ mem[p].pc = "start"
    /\ mem' = [mem EXCEPT ![p] = AfterParse(mem[p], ParseTodoFile(fs, Main), now)]
    /\ UNCHANGED <<fs, now, gitVars, out, cyc>>

\* os.Create: the file is truncated, or the call stops when it sees a conflict
RaceCreate(p) ==
    /\ mem[p].pc = "parsed"
    /\ IF Conflict(mem[p].read, Items(fs, Main))
       THEN /\ mem' = [mem EXCEPT ![p].pc = "done", ![p].err = "conflict"]
            /\ fs' = fs
       ELSE /\ mem' = [mem EXCEPT ![p].pc = "writing", ![p].k = 0, ![p].off = 0]
            /\ fs' = PutFile(fs, Main, <<>>)
    /\ UNCHANGED <<now, gitVars, out, cyc>>

\* one Fprintf: the header first, then the line of the next item
RaceEmit(p) ==
    /\ mem[p].pc = "writing"
    /\ mem[p].k <= Len(mem[p].list)
    /\ fs' = PutFile(fs, Main,
                     WriteAt(fs.files[Main], mem[p].off, Chunk(Main, mem[p].list, mem[p].k)))
    /\ mem' = [mem EXCEPT ![p].k = @ + 1,
                          ![p].off = @ + Len(Chunk(Main, mem[p].list, mem[p].k))]
    /\ UNCHANGED <<now, gitVars, out, cyc>>

\* after the last Fprintf the file is closed and WriteTodoFile returns nil
RaceReturn(p) ==
    /\ mem[p].pc = "writing"
    /\ mem[p].k = Len(mem[p].list) + 1
    /\ mem' = [mem EXCEPT ![p].pc = "done"]
    /\ UNCHANGED <<fs, now, gitVars, out, cyc>>

NextRace ==
    \/ \E p \in Procs : RaceParse(p)
    \/ \E p \in Procs : RaceCreate(p)
    \/ \E p \in Procs : RaceEmit(p)
    \/ \E p \in Procs : RaceReturn(p)

SpecRace == InitRace /\ [][NextRace]_vars

\* the process is killed between os.Create and the return of WriteTodoFile
Kill(p) ==
    /\ mem[p].pc = "writing"
    /\ mem' = [mem EXCEPT ![p].pc = "killed"]
    /\ UNCHANGED <<fs, now, gitVars, out, cyc>>

\* the calls of the invocation that may be killed
KillCalls == {AddCall(text) : text \in Texts} \cup {CheckCall(1), UncheckCall(1)}

\* the files it starts from: lists the program wrote, and a list whose first
\* item is completed with a text of blanks
KillFiles ==
    {WriteTodoFile(NoDir, Main, RaceItems(n)) : n \in 0..MaxRaceItems}
        \cup {PutFile(NoDir, Main, HeaderText(Main) \o LineBlankText \o LineIndentedDone \o <<"\n">>)}

InitKill ==
    /\ fs \in KillFiles
    /\ cyc = Items(fs, Main)
    /\ mem \in [{1} -> {Started(call) : call \in KillCalls}]
    /\ now \in {0, 1}
    /\ isRepo = TRUE /\ hasCommits = TRUE
    /\ branches = {Main} /\ head = Main
    /\ out = Idle

NextKill ==
    \/ RaceParse(1)
    \/ RaceCreate(1)
    \/ RaceEmit(1)
    \/ RaceReturn(1)
    \/ Kill(1)

SpecKill == InitKill /\ [][NextKill]_vars

---------------------------------------------------------------------------
(* Claims about two invocations on one list (SpecRace).                    *)

\* both invocations have returned without an error
BothSucceeded == \A p \in Procs : mem[p].pc = "done" /\ mem[p].err = ""

\* C24: two invocations against the same list can both report success while
\* the file keeps the update of one of them only; no invocation detects or
\* reports the conflict.  As an invariant: an invocation that has returned
\* reports success, or for check and uncheck an ID outside the list it read,
\* and one that reports success has written the whole list it had in memory.
C24_NoConflictReported ==
    \A p \in Procs :
        mem[p].pc = "done" =>
            \/ mem[p].err = "" /\ mem[p].k = Len(mem[p].list) + 1
            \/ mem[p].err = "invalid item ID" /\ mem[p].call.op # "add"
                   /\ (mem[p].call.id < 1 \/ mem[p].call.id > Len(cyc)
                          \/ \E q \in Procs \ {p} : mem[q].pc # "start")

\* both adds read the list of one item, both returned success, and the file
\* holds the item and the text of the second add only
C24_Witness ==
    /\ BothSucceeded
    /\ mem[1].call = AddCall(<<"c">>) /\ mem[2].call = AddCall(<<"d", " ", "d">>)
    /\ mem[1].read = cyc /\ mem[2].read = cyc
    /\ Len(cyc) = 1
    /\ Items(fs, Main) = mem[2].list
    /\ \A i \in 1..Len(Items(fs, Main)) : Items(fs, Main)[i].Text # <<"c">>

\* C30: a write truncates the file before it emits its lines and takes no
\* lock, so an invocation that reads while another writes can see fewer items
\* than the list held before, and when it writes, items neither invocation
\* targeted can be missing.  As a property of every read: it returns fewer
\* items than the list held before both started only while the other
\* invocation is between its os.Create and its last Fprintf.
C30_ShortReadWhileWriting ==
    [][\A p \in Procs :
          (mem[p].pc = "start" /\ mem'[p].pc # "start"
              /\ Len(Items(fs, Main)) < Len(cyc))
          => \E q \in Procs \ {p} : mem[q].pc = "writing"]_vars

\* the list held a and b; the second add read it after the first had
\* truncated it, saw no item, and wrote last: both returned success and the
\* file holds the text of the second add alone
C30_Witness ==
    /\ BothSucceeded
    /\ Len(cyc) = 2
    /\ mem[1].call = AddCall(<<"c">>) /\ mem[2].call = AddCall(<<"d", " ", "d">>)
    /\ mem[1].read = cyc
    /\ mem[2].read = <<>>
    /\ Len(Items(fs, Main)) = 1
    /\ Items(fs, Main)[1].Text = <<"d", " ", "d">>

---------------------------------------------------------------------------
(* Claim about a write that is cut short (SpecKill).                       *)

\* two completion times that are written as the same minute, or both absent
SameStamp(a, b) ==
    IF a = Nil \/ b = Nil THEN a = b ELSE FormatTime(a) = FormatTime(b)

\* `read` is a prefix of `list`: item by item the same ID, text and flag, and
\* the same completion time as far as the file keeps it
IsPrefixOf(read, list) ==
    /\ Len(read) <= Len(list)
    /\ \A i \in 1..Len(read) :
          /\ read[i].ID = list[i].ID
          /\ read[i].Text = list[i].Text
          /\ read[i].Completed = list[i].Completed
          /\ SameStamp(read[i].CompletedTime, list[i].CompletedTime)

\* C25: a write that is interrupted after the file has been truncated leaves
\* a file that parses without error to a prefix (possibly empty) of the item
\* sequence that was being written.
C25_KilledWriteLeavesPrefix ==
    mem[1].pc = "killed" =>
        /\ ParseTodoFile(fs, Main).err = ""
        /\ IsPrefixOf(Items(fs, Main), mem[1].list)

\* the same for the calls and lists whose texts survive a write and a read
C25_PlainTextsOnly ==
    (/\ mem[1].pc = "killed"
     /\ \A i \in 1..Len(mem[1].list) : mem[1].list[i].Text \in PlainTexts \cup {<<"a">>, <<"b">>})
    => /\ ParseTodoFile(fs, Main).err = ""
       /\ IsPrefixOf(Items(fs, Main), mem[1].list)

---------------------------------------------------------------------------
(* Claims about what a command leaves alone (SpecCLI).                     *)

\* the file of list `name`, or a marker when there is none
FileOf(dir, name) == IF name \in DOMAIN dir.files THEN <<dir.files[name]>> ELSE <<>>

\* C26: the active branch is changed only by todo list <name>: add, check,
\* uncheck, progress, todo list without a name, history and todo list --delete
\* (confirmed, declined or rejected) leave it unchanged.
C26_OnlySwitchMovesHead ==
    [][/\ (\/ out'.op \in {"add", "check", "uncheck", "progress", "history", "delete"}
           \/ out'.op = "list" /\ out'.name = <<>>)
          => head' = head
       /\ (head' # head /\ out'.op # "checkout")
          => out'.op = "list" /\ out'.name \in ListNames
                /\ head' = FeatureBranch(out'.name)]_vars

\* a confirmed delete of list a has run while feature/main was the active
\* branch, and feature/main still is
C26_Witness ==
    /\ out.op = "delete" /\ out.msg = "Successfully deleted list"
    /\ out.name = ListA
    /\ head = FeatureBranch(Main)
    /\ FeatureBranch(ListA) \notin branches

\* C28: add, check and uncheck on list A, and switching to or creating list A,
\* never create, modify or delete the todo file of any other list B.
C28_OtherListsUntouched ==
    [][(\/ out'.op \in {"add", "check", "uncheck"}
        \/ out'.op = "list" /\ out'.name \in ListNames)
       => \A B \in ListNames \ {out'.name} : FileOf(fs', B) = FileOf(fs, B)]_vars

\* an add on list a has succeeded while list main has a file with an item
C28_Witness ==
    /\ out.op = "add" /\ out.err = "" /\ out.name = ListA
    /\ Len(Items(fs, ListA)) = 1
    /\ TodoFileExists(fs, Main)
    /\ Len(Items(fs, Main)) = 1

---------------------------------------------------------------------------
(* The history over lists with items completed at several times            *)
(* (SpecHistory).                                                          *)

\* the completion times of the files: three minutes
HistoryTimes == {0, TicksPerMinute, 2 * TicksPerMinute}

\* what an item of a history file can be: open, completed without a time,
\* completed at one of the times
HistoryKinds ==
    {[Completed |-> FALSE, CompletedTime |-> Nil], [Completed |-> TRUE, CompletedTime |-> Nil]}
        \cup {[Completed |-> TRUE, CompletedTime |-> t] : t \in HistoryTimes}

\* the item lists a history file holds: texts a, b, a, ... by position
HistoryLists ==
    UNION {{[i \in 1..n |-> TodoItem(i, IF i % 2 = 1 THEN <<"a">> ELSE <<"b">>,
                                     kinds[i].Completed, kinds[i].CompletedTime)] :
               kinds \in [1..n -> HistoryKinds]} : n \in 0..MaxHistoryItems}

HistoryFiles ==
    {[present |-> FALSE, items |-> <<>>]}
        \cup {[present |-> TRUE, items |-> items] : items \in HistoryLists}

\* the directories of the history runs: the two lists alone, and list main
\* next to the entries that are no list files
HistoryDirs ==
    {OverviewDir({}, mainFile, aFile) : mainFile \in HistoryFiles, aFile \in HistoryFiles}
        \cup {OverviewDir(OtherEntries, mainFile, [present |-> FALSE, items |-> <<>>]) :
                 mainFile \in HistoryFiles}

InitHistory ==
    /\ fs \in HistoryDirs
    /\ now = 0
    /\ isRepo = TRUE /\ hasCommits = TRUE /\ branches = {Main}
    /\ head = Main
    /\ mem = <<>>
    /\ out = Idle
    /\ cyc = NoCycle

NextHistory == CmdHistory

SpecHistory == InitHistory /\ [][NextHistory]_vars

\* the item lines of the history that was printed
HistoryLines == SelectSeq(out.shown, LAMBDA line : line.kind = "done")

\* the history line of an item of list `name`
HistoryLineOf(name, item) ==
    [kind |-> "done", text |-> item.Text, name |-> name, at |-> FormatTime(item.CompletedTime)]

\* whether list `name` has an item that is completed with a time
HasTimedItem(name) ==
    /\ TodoFileExists(fs, name)
    /\ \E i \in 1..Len(Items(fs, name)) :
          Items(fs, name)[i].Completed /\ Items(fs, name)[i].CompletedTime # Nil

\* the history lines of the items of `items` that are completed with a time
TimedLines(name, items) ==
    LET timed == SelectSeq(items, LAMBDA item : item.Completed /\ item.CompletedTime # Nil)
    IN [i \in 1..Len(timed) |-> HistoryLineOf(name, timed[i])]

\* how often `line` occurs in `lines`
Occurrences(lines, line) == Cardinality({k \in 1..Len(lines) : lines[k] = line})

\* `lines` holds the lines of `expected`, each as often as `expected` does,
\* and no line is followed by one with a later time
ExactlyNewestFirst(lines, expected) ==
    /\ Len(lines) = Len(expected)
    /\ \A k \in 1..Len(expected) :
          Occurrences(lines, expected[k]) = Occurrences(expected, expected[k])
    /\ \A k \in 1..Len(lines) : \A l \in 1..Len(lines) :
          k < l => ParseTime(<<lines[k].at>>) >= ParseTime(<<lines[l].at>>)

\* C27: the history shows exactly the items, over all lists, that are
\* completed with a parsed completedAt, each once, newest first: no entry is
\* followed by one with a later completion time.
C27_HistoryNewestFirst ==
    out.op = "history" =>
        /\ ExactlyNewestFirst(HistoryLines,
                              TimedLines(Main, Items(fs, Main))
                                  \o TimedLines(ListA, Items(fs, ListA)))
        /\ (\E name \in ListNames : HasTimedItem(name))
              = (out.shown # <<[kind |-> "No completed todos found."]>>)

\* list a holds an item completed first and one completed last, list main one
\* completed without a time and one completed in between; the history shows
\* the three with a time, the latest first
C27_Witness ==
    /\ out.op = "history"
    /\ Len(Items(fs, ListA)) = 2 /\ Len(Items(fs, Main)) = 2
    /\ Items(fs, ListA)[1].CompletedTime = 0
    /\ Items(fs, ListA)[2].CompletedTime = 2 * TicksPerMinute
    /\ Items(fs, Main)[1].Completed /\ Items(fs, Main)[1].CompletedTime = Nil
    /\ Items(fs, Main)[2].CompletedTime = TicksPerMinute
    /\ Len(HistoryLines) = 3
    /\ HistoryLines[1].name = ListA /\ HistoryLines[1].text = <<"b">>
    /\ HistoryLines[2].name = Main
    /\ HistoryLines[3].name = ListA /\ HistoryLines[3].text = <<"a">>

---------------------------------------------------------------------------
(* A hand-written file that is rewritten and then checked and unchecked    *)
(* (SpecStable).  cyc holds the items read from the file as it was typed.  *)

\* lines whose text is one blank: completed with a time, completed with a
\* time that does not parse, and not completed
BlankLineKinds ==
    { [kind |-> "done", text |-> <<" ">>, stamp |-> <<TimeTokens[1]>>],
      [kind |-> "badstamp", text |-> <<" ">>, stamp |-> <<"soon">>],
      [kind |-> "open", text |-> <<" ">>, stamp |-> <<>>] }

StableLineKinds == ReadLineKinds \cup BlankLineKinds

InitStable ==
    /\ mem \in UNION {[1..n -> StableLineKinds] : n \in 1..MaxReadLines}
    /\ fs = PutFile(NoDir, Main, HeaderText(Main) \o ReadFileText(mem))
    /\ cyc = Items(fs, Main)
    /\ now = 0
    /\ isRepo = TRUE /\ hasCommits = TRUE
    /\ branches = {Main} /\ head = Main
    /\ out = Idle

\* the first rewrite: WriteTodoFile with the list ParseTodoFile returned
StableRewrite ==
    /\ out.op = "idle"
    /\ fs' = WriteTodoFile(fs, Main, Items(fs, Main))
    /\ out' = Result("write", Main, "")
    /\ UNCHANGED <<now, gitVars, mem, cyc>>

\* CheckTodoItem after the first rewrite
StableCheck(itemID) ==
    /\ out.op # "idle"
    /\ fs' = CheckTodoItem(fs, Main, itemID, now).dir
    /\ out' = Result("check", Main, CheckTodoItem(fs, Main, itemID, now).err)
    /\ UNCHANGED <<now, gitVars, mem, cyc>>

\* UncheckTodoItem after the first rewrite
StableUncheck(itemID) ==
    /\ out.op # "idle"
    /\ fs' = UncheckTodoItem(fs, Main, itemID).dir
    /\ out' = Result("uncheck", Main, UncheckTodoItem(fs, Main, itemID).err)
    /\ UNCHANGED <<now, gitVars, mem, cyc>>

NextStable ==
    \/ StableRewrite
    \/ \E itemID \in 1..MaxReadLines : StableCheck(itemID)
    \/ \E itemID \in 1..MaxReadLines : StableUncheck(itemID)

SpecStable == InitStable /\ [][NextStable]_vars

\* the texts of an item sequence, in order
TextsOf(items) == [i \in 1..Len(items) |-> items[i].Text]

\* C29: writing back the list parsed from a file and parsing again yields the
\* same items (text, completed, completedAt, IDs) as parsing the file, and
\* after that first rewrite check and uncheck never alter the text of an item.
C29_RewriteStable ==
    /\ out.op = "write" => Items(fs, Main) = cyc
    /\ out.op \in {"check", "uncheck"} => TextsOf(Items(fs, Main)) = TextsOf(cyc)

\* the same for the files without an item whose text is blank
C29_StableWithoutBlankText ==
    (\A i \in 1..Len(cyc) : ~IsBlank(cyc[i].Text)) => C29_RewriteStable

=============================================================================
